---- MODULE Spec2Model ----
(***************************************************************************)
(* A model of generate_pluginmaster.py: the plugin master generator that   *)
(* merges local and repository plugin manifests into catalog files.        *)
(*                                                                         *)
(* Strings that the code inspects (version strings, asset names, plugin    *)
(* names) are sequences of one-character strings, so that split, int(),    *)
(* startswith, endswith and replace are computed as the code computes them.*)
(* Manifests are functions from field names to values; a field that is     *)
(* absent from the dict is absent from the function's domain.              *)
(***************************************************************************)
EXTENDS Integers, Sequences, FiniteSets, TLC

VARIABLES
    pc,               \* position of the run / of the call under study
    repo_manifest,    \* _choose_better_manifest: argument repo_manifest
    local_manifest,   \* _choose_better_manifest: argument local_manifest
    chosen_manifest,  \* _choose_better_manifest: returned manifest
    assets,           \* _find_plugin_asset: release_data["assets"]
    plugin_name,      \* _find_plugin_asset: argument plugin_name
    plugin_zip_url,   \* _find_plugin_asset: returned locator, 0 for None
    manifest,         \* add_download_links: the manifest it mutates
    applied,          \* add_download_links: number of applications so far
    icon_exists,      \* whether icons/{InternalName}.png exists
    asset_response,   \* the response to GET _repository_asset_url
    release_response, \* the response to GET .../releases/latest
    output_files,     \* Config.output_files, in the order of plugin-sources.json
    repository_list,  \* Config.repository_list with Config.plugin_outputs
    feed,             \* the release feed's answer for each configured source
    plugins_dir,      \* the plugin directories of ./plugins
    fetched,          \* what _fetch_download_count yields for each owner/repo
    disk,             \* the *.json files of the working directory
    existing_download_counts,  \* PluginMasterGenerator.existing_download_counts
    repo_cache,       \* DownloadCountUpdater.repo_cache
    manifests,        \* generate: the local variable manifests
    page,             \* _fetch_download_count: the local variable page
    total_downloads,  \* _fetch_download_count: the local variable total_downloads
    fetch_result,     \* _fetch_download_count: the returned count
    published         \* the *.json files as the previous run of generate left them

versionVars == <<repo_manifest, local_manifest, chosen_manifest>>
assetVars == <<assets, plugin_name, plugin_zip_url>>
enrichVars == <<manifest, applied, icon_exists, asset_response, release_response>>

configVars == <<output_files, repository_list>>
worldVars == <<feed, plugins_dir, fetched>>
runVars == <<disk, existing_download_counts, repo_cache, manifests>>
fetchVars == <<page, total_downloads, fetch_result>>
historyVars == <<published>>

vars == <<pc, versionVars, assetVars, enrichVars, configVars, worldVars, runVars, fetchVars,
          historyVars>>

-----------------------------------------------------------------------------
(* Bounds of the model *)

\* largest number of dot-separated components of a generated version string
MaxParts == 2

\* largest number of assets of a release
MaxAssets == 3

\* largest number of applications of add_download_links to one manifest
MaxApplications == 2

\* page numbers of the release feed from this one on are told apart by their
\* parity only
MaxPages == 6

\* download totals from this one on are not told apart
MaxTotal == 8

\* largest sum of the download counts of the assets of one page
MaxPageDownloads == 2

-----------------------------------------------------------------------------
(* Dicts *)

\* a dict with no key
EmptyDict == [k \in {} |-> ""]

\* dict.get(key, default)
Get(m, key, default) == IF key \in DOMAIN m THEN m[key] ELSE default

\* "key in dict"
Has(m, key) == key \in DOMAIN m

\* dict[key] = value (adds or overwrites)
Put(m, key, value) == [k \in (DOMAIN m) \cup {key} |-> IF k = key THEN value ELSE m[k]]

\* del dict[key] / dict.pop(key)
Del(m, key) == [k \in (DOMAIN m) \ {key} |-> m[k]]

-----------------------------------------------------------------------------
(* Strings as sequences of characters *)

\* str.startswith
StartsWith(s, p) == Len(s) >= Len(p) /\ SubSeq(s, 1, Len(p)) = p

\* str.endswith
EndsWith(s, p) == Len(s) >= Len(p) /\ SubSeq(s, Len(s) - Len(p) + 1, Len(s)) = p

\* str.replace(c, r) for a one-character c
RECURSIVE ReplaceChar(_, _, _)
ReplaceChar(s, c, r) ==
    IF s = <<>> THEN <<>>
    ELSE (IF Head(s) = c THEN r ELSE <<Head(s)>>) \o ReplaceChar(Tail(s), c, r)

\* str.split('.')
RECURSIVE SplitDot(_)
SplitDot(s) ==
    IF \A i \in 1..Len(s) : s[i] # "."
    THEN <<s>>
    ELSE LET i == CHOOSE j \in 1..Len(s) : s[j] = "." /\ \A k \in 1..(j-1) : s[k] # "."
         IN  <<SubSeq(s, 1, i - 1)>> \o SplitDot(SubSeq(s, i + 1, Len(s)))

\* '.'.join(parts)
RECURSIVE JoinDot(_)
JoinDot(parts) ==
    IF Len(parts) = 1 THEN parts[1]
    ELSE parts[1] \o <<".">> \o JoinDot(Tail(parts))

Digits == <<"0", "1", "2", "3", "4", "5", "6", "7", "8", "9">>

IsDigit(ch) == \E i \in 1..Len(Digits) : Digits[i] = ch

DigitValue(ch) == (CHOOSE i \in 1..Len(Digits) : Digits[i] = ch) - 1

\* the digits of an int() argument, after its optional sign
Unsigned(c) == IF c # <<>> /\ c[1] \in {"-", "+"} THEN Tail(c) ELSE c

\* int(c) does not raise ValueError: an optional sign and at least one digit
IsInt(c) == Unsigned(c) # <<>> /\ \A i \in 1..Len(Unsigned(c)) : IsDigit(Unsigned(c)[i])

RECURSIVE DigitsValue(_)
DigitsValue(d) ==
    IF d = <<>> THEN 0
    ELSE 10 * DigitsValue(SubSeq(d, 1, Len(d) - 1)) + DigitValue(d[Len(d)])

\* int(c), for a c that parses
IntOf(c) ==
    IF c # <<>> /\ c[1] = "-" THEN 0 - DigitsValue(Unsigned(c)) ELSE DigitsValue(Unsigned(c))

-----------------------------------------------------------------------------
(* _choose_better_manifest *)

\* the default "0.0" of manifest.get("AssemblyVersion", "0.0")
DefaultVersion == <<"0", ".", "0">>

\* [int(x) for x in version.split('.')] raises ValueError
ParseFails(version) == \E i \in 1..Len(SplitDot(version)) : ~IsInt(SplitDot(version)[i])

\* [int(x) for x in version.split('.')]
Parts(version) == [i \in 1..Len(SplitDot(version)) |-> IntOf(SplitDot(version)[i])]

\* parts.extend([0] * (max_len - len(parts)))
Extend(parts, max_len) == [i \in 1..max_len |-> IF i <= Len(parts) THEN parts[i] ELSE 0]

Max(a, b) == IF a >= b THEN a ELSE b

\* a mutation of ListGE: a strict comparison
ListGT(a, b) ==
    \/ \E i \in 1..Len(a) : i <= Len(b) /\ a[i] > b[i]
                              /\ \A j \in 1..(i-1) : a[j] = b[j]
    \/ (Len(a) > Len(b) /\ \A j \in 1..Len(b) : a[j] = b[j])

\* Python's a >= b on two lists of ints: the first differing element decides,
\* and when one list is a prefix of the other the longer one is the greater
ListGE(a, b) ==
    IF \E i \in 1..Len(a) : i <= Len(b) /\ a[i] # b[i]
    THEN LET i == CHOOSE j \in 1..Len(a) :
                    j <= Len(b) /\ a[j] # b[j] /\ \A k \in 1..(j-1) : a[k] = b[k]
         IN  a[i] > b[i]
    ELSE Len(a) >= Len(b)

\* a mutation of ParseFallback: the local manifest wins on a parse failure
ParseFallbackLocal(repo, local) == local

\* the except ValueError branch of _choose_better_manifest
ParseFallback(repo, local) == repo

\* PluginMasterGenerator._choose_better_manifest
ChooseBetterManifest(repo, local) ==
    LET repo_version  == Get(repo, "AssemblyVersion", DefaultVersion)
        local_version == Get(local, "AssemblyVersion", DefaultVersion)
    IN  IF repo_version = local_version THEN repo
        ELSE IF ParseFails(repo_version) \/ ParseFails(local_version)
             THEN ParseFallback(repo, local)
        ELSE LET max_len == Max(Len(Parts(repo_version)), Len(Parts(local_version)))
             IN  IF ListGE(Extend(Parts(repo_version), max_len),
                           Extend(Parts(local_version), max_len))
                 THEN repo
                 ELSE local

-----------------------------------------------------------------------------
(* The version-resolution specification: every pair of version strings     *)
(* built from a few components is given to _choose_better_manifest.        *)

\* the components version strings are built from: numbers of one and two
\* digits, a negative number, a word and the empty component
Components ==
    { <<"0">>, <<"1">>, <<"2">>, <<"9">>, <<"1", "0">>, <<"-", "1">>,
      <<"a">>, <<>> }

VersionStrings ==
    { JoinDot(p) : p \in UNION { [1..n -> Components] : n \in 1..MaxParts } }

\* a local manifest of plugin P, with or without an AssemblyVersion
LocalManifestsOfP ==
    { ("InternalName" :> <<"P">>) }
    \cup { ("InternalName" :> <<"P">>) @@ ("AssemblyVersion" :> v) : v \in VersionStrings }

\* a repository manifest of plugin P
RepoManifestsOfP ==
    { m @@ ("_repository_source" :> TRUE) : m \in LocalManifestsOfP }

\* the variables of the calls and of the run a specification does not make
NoVersionCall ==
    repo_manifest = EmptyDict /\ local_manifest = EmptyDict /\ chosen_manifest = EmptyDict

NoAssetCall == assets = <<>> /\ plugin_name = <<>> /\ plugin_zip_url = 0

NoEnrichCall ==
    /\ manifest = EmptyDict /\ applied = 0 /\ icon_exists = FALSE
    /\ asset_response = [status |-> 0, name |-> <<>>]
    /\ release_response = [status |-> 0, assets |-> <<>>]

NoRun ==
    /\ output_files = <<>> /\ repository_list = <<>>
    /\ feed = EmptyDict /\ plugins_dir = <<>> /\ fetched = EmptyDict
    /\ disk = EmptyDict /\ existing_download_counts = EmptyDict
    /\ repo_cache = EmptyDict /\ manifests = <<>>
    /\ published = EmptyDict

NoFetchCall == page = 0 /\ total_downloads = 0 /\ fetch_result = 0

InitVersion ==
    /\ pc = "choose"
    /\ repo_manifest \in RepoManifestsOfP
    /\ local_manifest \in LocalManifestsOfP
    /\ chosen_manifest = EmptyDict
    /\ NoAssetCall /\ NoEnrichCall /\ NoRun /\ NoFetchCall

\* one call of _choose_better_manifest
ChooseCall ==
    /\ pc = "choose"
    /\ chosen_manifest' = ChooseBetterManifest(repo_manifest, local_manifest)
    /\ pc' = "chosen"
    /\ UNCHANGED <<repo_manifest, local_manifest, assetVars, enrichVars,
                   configVars, worldVars, runVars, fetchVars, historyVars>>

NextVersion == ChooseCall

SpecVersion == InitVersion /\ [][NextVersion]_vars

-----------------------------------------------------------------------------
(* C1, C2: version resolution *)

RepoVersion == Get(repo_manifest, "AssemblyVersion", DefaultVersion)
LocalVersion == Get(local_manifest, "AssemblyVersion", DefaultVersion)

\* the value of the i-th component of a version string, 0 past its end
ComponentAt(version, i) ==
    IF i <= Len(SplitDot(version)) THEN IntOf(SplitDot(version)[i]) ELSE 0

AllInteger(version) == \A i \in 1..Len(SplitDot(version)) : IsInt(SplitDot(version)[i])

\* the zero-padded integer tuple of a is strictly less than that of b
PaddedLess(a, b) ==
    \E i \in 1..Max(Len(SplitDot(a)), Len(SplitDot(b))) :
        /\ ComponentAt(a, i) < ComponentAt(b, i)
        /\ \A j \in 1..(i-1) : ComponentAt(a, j) = ComponentAt(b, j)

\* C1: when both versions are dot-separated integers, the repository manifest
\* is returned exactly when its zero-padded integer tuple is greater than or
\* equal to the local one, and the local manifest exactly when the local tuple
\* is strictly greater; 1.10 beats 1.9, 2 beats 1.9 and 1.0 equals 1.
C1_RepoWinsUnlessLocalStrictlyGreater ==
    (pc = "chosen" /\ AllInteger(RepoVersion) /\ AllInteger(LocalVersion)) =>
        /\ chosen_manifest = repo_manifest <=> ~PaddedLess(RepoVersion, LocalVersion)
        /\ chosen_manifest = local_manifest <=> PaddedLess(RepoVersion, LocalVersion)
        /\ (RepoVersion = <<"1", ".", "1", "0">> /\ LocalVersion = <<"1", ".", "9">>)
              => chosen_manifest = repo_manifest
        /\ (RepoVersion = <<"1", ".", "9">> /\ LocalVersion = <<"1", ".", "1", "0">>)
              => chosen_manifest = local_manifest
        /\ (RepoVersion = <<"2">> /\ LocalVersion = <<"1", ".", "9">>)
              => chosen_manifest = repo_manifest
        /\ (RepoVersion = <<"1">> /\ LocalVersion = <<"1", ".", "0">>)
              => chosen_manifest = repo_manifest

\* C1 witness: the local manifest won with 1.10 against the repository's 1.9
C1_Witness ==
    /\ pc = "chosen"
    /\ RepoVersion = <<"1", ".", "9">>
    /\ LocalVersion = <<"1", ".", "1", "0">>
    /\ chosen_manifest = local_manifest

\* C2: when either version has a component that is not an integer, the
\* repository manifest is returned
C2_ParseFailurePrefersRepository ==
    (pc = "chosen" /\ (~AllInteger(RepoVersion) \/ ~AllInteger(LocalVersion))) =>
        chosen_manifest = repo_manifest

\* C2 witness: the local version is greater on its integer components, its
\* last component is empty, and the repository manifest was returned
C2_Witness ==
    /\ pc = "chosen"
    /\ RepoVersion = <<"1">>
    /\ LocalVersion = <<"9", ".">>
    /\ chosen_manifest = repo_manifest

-----------------------------------------------------------------------------
(* _find_plugin_asset *)

Zip == <<".", "z", "i", "p">>
LatestZip == <<"l", "a", "t", "e", "s", "t">> \o Zip
DashLatestZip == <<"-">> \o LatestZip

\* the first of a set of positions of the asset list, 0 when there is none:
\* "for asset in assets: if <rule>: return asset.get('url')"
FirstOf(indices) ==
    IF indices = {} THEN 0 ELSE CHOOSE i \in indices : \A j \in indices : i <= j

\* the rules of _find_plugin_asset, in the order of its loops
IsLatestZip(name) == name = LatestZip
IsNamedZip(name, id) == name = id \o Zip
IsNoSpacesZip(name, id) == name = ReplaceChar(id, " ", <<>>) \o Zip
IsDashesZip(name, id) == name = ReplaceChar(id, " ", <<"-">>) \o Zip
IsPrefixedZip(name, id) == EndsWith(name, Zip) /\ StartsWith(name, id \o <<"-">>)
IsAnyZip(name) == EndsWith(name, Zip)

\* a mutation of FindPluginAssetIndex: {plugin_name}.zip is tried before
\* latest.zip, and the prefix rule is missing
FindPluginAssetIndexNamedFirst(list, id) ==
    LET r1 == FirstOf({ i \in 1..Len(list) : IsNamedZip(list[i].name, id) })
        r2 == FirstOf({ i \in 1..Len(list) : IsLatestZip(list[i].name) })
        r6 == FirstOf({ i \in 1..Len(list) : IsAnyZip(list[i].name) })
    IN  IF r1 # 0 THEN r1 ELSE IF r2 # 0 THEN r2 ELSE r6

\* the index of the asset _find_plugin_asset returns the url of, 0 for None
FindPluginAssetIndex(list, id) ==
    LET r1 == FirstOf({ i \in 1..Len(list) : IsLatestZip(list[i].name) })
        r2 == FirstOf({ i \in 1..Len(list) : IsNamedZip(list[i].name, id) })
        r3 == FirstOf({ i \in 1..Len(list) : IsNoSpacesZip(list[i].name, id) })
        r4 == FirstOf({ i \in 1..Len(list) : IsDashesZip(list[i].name, id) })
        r5 == FirstOf({ i \in 1..Len(list) : IsPrefixedZip(list[i].name, id) })
        r6 == FirstOf({ i \in 1..Len(list) : IsAnyZip(list[i].name) })
    IN  IF r1 # 0 THEN r1
        ELSE IF r2 # 0 THEN r2
        ELSE IF r3 # 0 THEN r3
        ELSE IF r4 # 0 THEN r4
        ELSE IF r5 # 0 THEN r5
        ELSE r6

\* RepositoryPluginProcessor._find_plugin_asset: the url of the chosen asset
FindPluginAsset(list, id) ==
    IF FindPluginAssetIndex(list, id) = 0 THEN 0
    ELSE list[FindPluginAssetIndex(list, id)].url

-----------------------------------------------------------------------------
(* The asset-selection specification: every list of up to MaxAssets assets *)
(* with names built around the plugin name is given to _find_plugin_asset. *)

\* the keys of plugin-sources.json "plugins": one with a space, one without
PluginNames == { <<"A", " ", "B">>, <<"A", "B">> }

\* asset names of a release: each rule's name, a prefixed name that ends
\* with -latest.zip, another archive, a file that is no archive, no name
AssetNames(id) ==
    { LatestZip,
      id \o Zip,
      ReplaceChar(id, " ", <<>>) \o Zip,
      ReplaceChar(id, " ", <<"-">>) \o Zip,
      id \o <<"-", "1">> \o Zip,
      id \o DashLatestZip,
      <<"x">> \o Zip,
      <<"x", ".", "t", "x", "t">>,
      <<>> }

\* the assets of a release: the url of an asset is its position in the feed
AssetLists(id) ==
    { [i \in 1..Len(names) |-> [name |-> names[i], url |-> i]] :
        names \in UNION { [1..n -> AssetNames(id)] : n \in 0..MaxAssets } }

InitAsset ==
    /\ pc = "find"
    /\ plugin_name \in PluginNames
    /\ assets \in AssetLists(plugin_name)
    /\ plugin_zip_url = 0
    /\ NoVersionCall /\ NoEnrichCall /\ NoRun /\ NoFetchCall

\* one call of _find_plugin_asset
FindCall ==
    /\ pc = "find"
    /\ plugin_zip_url' = FindPluginAsset(assets, plugin_name)
    /\ pc' = "found"
    /\ UNCHANGED <<assets, plugin_name, versionVars, enrichVars,
                   configVars, worldVars, runVars, fetchVars, historyVars>>

NextAsset == FindCall

SpecAsset == InitAsset /\ [][NextAsset]_vars

-----------------------------------------------------------------------------
(* C4, C5: asset selection *)

\* asset name n satisfies the rule of rank r of the claim's ranking
Satisfies(r, n, id) ==
    CASE r = 1 -> n = LatestZip
      [] r = 2 -> n = id \o Zip
      [] r = 3 -> n = ReplaceChar(id, " ", <<>>) \o Zip
      [] r = 4 -> n = ReplaceChar(id, " ", <<"-">>) \o Zip
      [] r = 5 -> EndsWith(n, Zip) /\ StartsWith(n, id \o <<"-">>)
      [] r = 6 -> EndsWith(n, Zip)

\* the ranks some asset satisfies
SatisfiedRanks == { r \in 1..6 : \E i \in 1..Len(assets) : Satisfies(r, assets[i].name, plugin_name) }

BestRank == CHOOSE r \in SatisfiedRanks : \A q \in SatisfiedRanks : r <= q

\* C4: the returned locator is that of the first asset satisfying the
\* highest-ranked rule any asset satisfies, None when no rule is satisfied;
\* with latest.zip and {id}.zip both present latest.zip is selected
C4_HighestRankedRuleFirstAsset ==
    pc = "found" =>
        /\ SatisfiedRanks = {} => plugin_zip_url = 0
        /\ SatisfiedRanks # {} =>
              \E i \in 1..Len(assets) :
                  /\ plugin_zip_url = assets[i].url
                  /\ Satisfies(BestRank, assets[i].name, plugin_name)
                  /\ \A j \in 1..(i-1) : ~Satisfies(BestRank, assets[j].name, plugin_name)
        /\ ((\E i \in 1..Len(assets) : assets[i].name = LatestZip)
             /\ (\E i \in 1..Len(assets) : assets[i].name = plugin_name \o Zip))
              => \E i \in 1..Len(assets) :
                    assets[i].name = LatestZip /\ plugin_zip_url = assets[i].url

\* C4 witness: {id}.zip is listed before latest.zip and latest.zip is returned
C4_Witness ==
    /\ pc = "found"
    /\ Len(assets) >= 2
    /\ assets[1].name = plugin_name \o Zip
    /\ assets[2].name = LatestZip
    /\ plugin_zip_url = assets[2].url

\* the first asset in list order whose name ends with .zip, 0 when none
FirstZipIndex == FirstOf({ i \in 1..Len(assets) : EndsWith(assets[i].name, Zip) })

\* C5: an asset whose name ends with -latest.zip is returned only when it is
\* the first asset in list order whose name ends with .zip
C5_DashLatestOnlyAsLastResort ==
    (pc = "found" /\ plugin_zip_url # 0
       /\ EndsWith(assets[plugin_zip_url].name, DashLatestZip))
      => plugin_zip_url = assets[FirstZipIndex].url

-----------------------------------------------------------------------------
(* Config.load_default *)

\* Config.global_api_level
GlobalApiLevel == 13

\* Config.branch: GITHUB_REF, "main" when it is not set
Branch == "main"

\* Config.repo
ConfigRepo == "WigglyMuffin/DalamudPlugins"

GithubPrefix == "https://github.com/"

\* Config.download_urls[url_key].format(branch=..., plugin_name=...).
\* A URL is the sequence of the pieces it is formatted from.
DownloadUrl(url_key, branch, name) ==
    <<GithubPrefix, ConfigRepo, "/raw/", branch, "/plugins/">> \o name
    \o (CASE url_key = "main" -> <<"/latest.zip">>
          [] url_key = "testing" -> <<"/testing/latest.zip">>
          [] url_key = "global" -> <<"/global/latest.zip">>)

\* Config.required_manifest_keys
RequiredManifestKeys ==
    { "Author", "Name", "Punchline", "Description", "Tags",
      "InternalName", "RepoUrl", "Changelog", "AssemblyVersion",
      "ApplicableVersion", "DalamudApiLevel", "TestingAssemblyVersion",
      "TestingDalamudApiLevel", "IconUrl", "ImageUrls", "LastUpdate",
      "DownloadCount", "DownloadLinkInstall", "DownloadLinkUpdate", "DownloadLinkTesting" }

\* Config.field_duplicates: DownloadLinkInstall is copied to DownloadLinkUpdate
FieldDuplicates == { <<"DownloadLinkInstall", "DownloadLinkUpdate">> }

\* the suffix f"(API{global_api_level})" of the Name of a global variant
GlobalSuffix == <<"(API", ToString(GlobalApiLevel), ")">>

\* manifest["Name"].endswith(f"(API{global_api_level})")
IsGlobal(m) == EndsWith(m["Name"], GlobalSuffix)

-----------------------------------------------------------------------------
(* PluginProcessor._get_repo_download_url and add_download_links *)

\* str.rstrip("/")
RECURSIVE RStripSlash(_)
RStripSlash(s) ==
    IF s # <<>> /\ s[Len(s)] = "/" THEN RStripSlash(SubSeq(s, 1, Len(s) - 1)) ELSE s

\* repo_url.replace("https://github.com/", "").rstrip("/")
RepoPath(repo_url) == RStripSlash(ReplaceChar(repo_url, GithubPrefix, <<>>))

\* "github.com" in repo_url
MentionsGithub(repo_url) == \E i \in 1..Len(repo_url) : repo_url[i] = GithubPrefix

\* "/" in repo_path
HasSlash(repo_path) == \E i \in 1..Len(repo_path) : repo_path[i] = "/"

\* None, for a URL
NoUrl == <<>>

\* the asset name _get_repo_download_url prefers, <<>> when there is none:
\* latest.zip, then a {InternalName}- prefixed archive that does not end with
\* -latest.zip, then {InternalName}.zip, then any archive
PreferredAssetName(list, id) ==
    LET r1 == FirstOf({ i \in 1..Len(list) : IsLatestZip(list[i].name) })
        r2 == FirstOf({ i \in 1..Len(list) :
                          /\ IsPrefixedZip(list[i].name, id)
                          /\ ~EndsWith(list[i].name, DashLatestZip) })
        r3 == FirstOf({ i \in 1..Len(list) : IsNamedZip(list[i].name, id) })
        r4 == FirstOf({ i \in 1..Len(list) : IsAnyZip(list[i].name) })
        r  == IF r1 # 0 THEN r1 ELSE IF r2 # 0 THEN r2 ELSE IF r3 # 0 THEN r3 ELSE r4
    IN  IF r = 0 THEN <<>> ELSE list[r].name

\* PluginProcessor._get_repo_download_url; a status of 0 is a request that raised
GetRepoDownloadUrl(m, release) ==
    LET repo_url == Get(m, "RepoUrl", <<>>)
        name == PreferredAssetName(release.assets, m["InternalName"])
    IN  IF repo_url = <<>> \/ ~MentionsGithub(repo_url) THEN NoUrl
        ELSE IF ~HasSlash(RepoPath(repo_url)) THEN NoUrl
        ELSE IF release.status # 200 THEN NoUrl
        ELSE IF name = <<>> THEN NoUrl
        ELSE <<GithubPrefix>> \o RepoPath(repo_url) \o <<"/releases/latest/download/">> \o name

\* add_download_links, lines 163-199: DownloadLinkInstall
SetInstallLink(m, asset, release) ==
    IF Has(m, "_repository_asset_url")
    THEN IF /\ Get(m, "_repository_token_name", "") # ""
            /\ asset.status = 200
            /\ asset.name # <<>>
         THEN Put(m, "DownloadLinkInstall",
                  <<GithubPrefix>> \o RepoPath(Get(m, "RepoUrl", <<>>))
                  \o <<"/releases/latest/download/">> \o asset.name)
         ELSE m
    ELSE IF Get(m, "_repository_source", FALSE)
    THEN IF GetRepoDownloadUrl(m, release) # NoUrl
         THEN Put(m, "DownloadLinkInstall", GetRepoDownloadUrl(m, release))
         ELSE m
    ELSE Put(m, "DownloadLinkInstall",
             DownloadUrl(IF IsGlobal(m) THEN "global" ELSE "main", Branch, m["InternalName"]))

\* add_download_links, lines 201-207: DownloadLinkTesting
SetTestingLink(m, is_global) ==
    IF Has(m, "TestingAssemblyVersion") /\ ~is_global
    THEN IF Has(m, "_testing_download_url")
         THEN Put(Del(m, "_testing_download_url"), "DownloadLinkTesting",
                  m["_testing_download_url"])
         ELSE Put(m, "DownloadLinkTesting", DownloadUrl("testing", Branch, m["InternalName"]))
    ELSE m

\* add_download_links, lines 209-212: the one configured duplication
DuplicateFields(m) ==
    IF Has(m, "DownloadLinkInstall") /\ ~Has(m, "DownloadLinkUpdate")
    THEN Put(m, "DownloadLinkUpdate", m["DownloadLinkInstall"])
    ELSE m

\* add_download_links, lines 214-218: IconUrl
SetIconUrl(m, icon) ==
    IF (~Has(m, "IconUrl") \/ m["IconUrl"] = <<>>) /\ icon
    THEN Put(m, "IconUrl",
             <<"https://raw.githubusercontent.com/", ConfigRepo, "/main/icons/">>
             \o m["InternalName"] \o <<".png">>)
    ELSE m

\* PluginProcessor.add_download_links
AddDownloadLinks(m, icon, asset, release) ==
    Put(SetIconUrl(DuplicateFields(SetTestingLink(SetInstallLink(m, asset, release),
                                                  IsGlobal(m))),
                   icon),
        "DownloadCount", 0)

-----------------------------------------------------------------------------
(* The enrichment specification: add_download_links is applied, up to      *)
(* MaxApplications times, to each kind of manifest the collectors build,   *)
(* with the icon file and the remote responses fixed for the behaviour.    *)

\* m with key set to value when flag holds
Opt(m, flag, key, value) == IF flag THEN Put(m, key, value) ELSE m

\* the Name a global variant gets in process_plugin_directory
GlobalName(name) == name \o <<" ">> \o GlobalSuffix

GoodRepoUrl == <<GithubPrefix, "o", "/", "r">>

\* RepoUrl values: none, one without owner/repo, one that is not on GitHub
RepoUrls == { <<>>, <<GithubPrefix, "o">>, <<"https://example.org/", "o", "/", "r">>,
              GoodRepoUrl, GoodRepoUrl \o <<"/">> }

PresetUrl == <<"https://example.org/preset">>
TestingUrl == <<GithubPrefix, "o", "/", "r", "/releases/download/", "testing-v2", "/latest.zip">>

\* the IconUrl of an extracted manifest: absent, empty or set
WithIcon(m, icon) ==
    CASE icon = "absent" -> m
      [] icon = "empty" -> Put(m, "IconUrl", <<>>)
      [] icon = "set" -> Put(m, "IconUrl", PresetUrl)

\* manifests of local archives: primary or global variant, with or without
\* merged testing fields, a DownloadLinkUpdate of their own and an IconUrl
LocalEnrichInputs ==
    { WithIcon(Opt(Opt(("InternalName" :> <<"P">>)
                       @@ ("Name" :> IF g THEN GlobalName(<<"N">>) ELSE <<"N">>),
                       t, "TestingAssemblyVersion", <<"2">>),
                   u, "DownloadLinkUpdate", PresetUrl),
               icon) :
        g \in BOOLEAN, t \in BOOLEAN, u \in BOOLEAN, icon \in {"absent", "empty", "set"} }

\* manifests of _get_manifest_from_repository: with the asset locator and the
\* token name, with or without a testing release and an install link of their own
RepoEnrichInputs ==
    { Opt(Opt(Opt(("InternalName" :> <<"P">>) @@ ("Name" :> <<"N">>)
                  @@ ("RepoUrl" :> url) @@ ("_repository_source" :> TRUE)
                  @@ ("_repository_asset_url" :> 1)
                  @@ ("_repository_token_name" :> token),
                  t, "TestingAssemblyVersion", <<"2">>),
              t, "_testing_download_url", TestingUrl),
          i, "DownloadLinkInstall", PresetUrl) :
        url \in {GoodRepoUrl, GoodRepoUrl \o <<"/">>}, token \in {"GITHUB_TOKEN", ""},
        t \in BOOLEAN, i \in BOOLEAN }

\* manifests marked repository-sourced that carry no asset locator
MarkedEnrichInputs ==
    { Opt(("InternalName" :> <<"P">>) @@ ("Name" :> <<"N">>)
          @@ ("RepoUrl" :> url) @@ ("_repository_source" :> TRUE),
          t, "TestingAssemblyVersion", <<"2">>) :
        url \in RepoUrls, t \in BOOLEAN }

\* responses to the asset lookup: 200 with a name, 200 without, 404, raised
AssetResponses ==
    { [status |-> 200, name |-> <<"P">> \o Zip], [status |-> 200, name |-> <<>>],
      [status |-> 404, name |-> <<>>], [status |-> 0, name |-> <<>>] }

\* responses of the latest-release feed: 200 with assets, 404, raised
ReleaseResponses ==
    { [status |-> 200, assets |-> a] : a \in AssetLists(<<"P">>) }
    \cup { [status |-> 404, assets |-> <<>>], [status |-> 0, assets |-> <<>>] }

InitEnrich ==
    /\ pc = "enrich"
    /\ applied = 0
    /\ icon_exists \in BOOLEAN
    /\ \/ /\ manifest \in LocalEnrichInputs
          /\ asset_response = [status |-> 0, name |-> <<>>]
          /\ release_response = [status |-> 0, assets |-> <<>>]
       \/ /\ manifest \in RepoEnrichInputs
          /\ asset_response \in AssetResponses
          /\ release_response = [status |-> 0, assets |-> <<>>]
       \/ /\ manifest \in MarkedEnrichInputs
          /\ asset_response = [status |-> 0, name |-> <<>>]
          /\ release_response \in ReleaseResponses
    /\ NoVersionCall /\ NoAssetCall /\ NoRun /\ NoFetchCall

\* one application of add_download_links to the manifest
EnrichCall ==
    /\ pc = "enrich"
    /\ applied < MaxApplications
    /\ manifest' = AddDownloadLinks(manifest, icon_exists, asset_response, release_response)
    /\ applied' = applied + 1
    /\ UNCHANGED <<pc, icon_exists, asset_response, release_response,
                   versionVars, assetVars, configVars, worldVars, runVars, fetchVars, historyVars>>

NextEnrich == EnrichCall

SpecEnrich == InitEnrich /\ [][NextEnrich]_vars

-----------------------------------------------------------------------------
(* C3: idempotence of add_download_links *)

\* C3: once add_download_links has been applied to a manifest, applying it
\* again under the same icon file and remote responses changes no field
C3_AddDownloadLinksIdempotent ==
    applied >= 1 =>
        AddDownloadLinks(manifest, icon_exists, asset_response, release_response) = manifest

-----------------------------------------------------------------------------
(* The collectors: process_plugin_directory, _get_manifest_from_repository, *)
(* get_repository_plugins, _collect_manifests_with_priority                 *)

\* a dict is truthy: "if manifest:"
Truthy(m) == DOMAIN m # {}

\* PluginProcessor.process_plugin_directory. A directory is a record of the
\* manifests of its archives: main, testing and global, each EmptyDict when
\* the archive is missing or its manifest cannot be read.
ProcessPluginDirectory(dir) ==
    IF ~Truthy(dir.main) THEN <<>>
    ELSE LET base == IF Truthy(dir.testing)
                     THEN Put(Put(dir.main,
                                  "TestingAssemblyVersion",
                                  Get(dir.testing, "AssemblyVersion", <<>>)),
                              "TestingDalamudApiLevel",
                              Get(dir.testing, "DalamudApiLevel", 0))
                     ELSE dir.main
         IN  IF Truthy(dir.global)
             THEN <<base, Put(dir.global, "Name", GlobalName(dir.global["Name"]))>>
             ELSE <<base>>

\* the directories of plugins_dir named name (at most one)
DirsNamed(dirs, name) == SelectSeq(dirs, LAMBDA d : d.name = name)

\* PluginMasterGenerator._get_local_manifest: EmptyDict for None
GetLocalManifest(dirs, name) ==
    IF DirsNamed(dirs, name) = <<>> THEN EmptyDict
    ELSE IF ProcessPluginDirectory(DirsNamed(dirs, name)[1]) = <<>> THEN EmptyDict
    ELSE ProcessPluginDirectory(DirsNamed(dirs, name)[1])[1]

\* PluginMasterGenerator._collect_local_manifests
RECURSIVE CollectLocalManifests(_)
CollectLocalManifests(dirs) ==
    IF dirs = <<>> THEN <<>>
    ELSE ProcessPluginDirectory(Head(dirs)) \o CollectLocalManifests(Tail(dirs))

\* RepositoryPluginProcessor._get_manifest_from_repository: EmptyDict for
\* None. A release is the answer of the feed for the source: the status of
\* releases/latest (0 when the request raised), published_at ("" when absent),
\* its assets, the manifest inside the archive (EmptyDict when the download or
\* the extraction fails) and the testing pre-release info (EmptyDict for None).
GetManifestFromRepository(key, repo_url, token_name, release) ==
    IF ~HasSlash(RepoPath(repo_url)) THEN EmptyDict
    ELSE IF release.status # 200 THEN EmptyDict
    ELSE IF FindPluginAsset(release.assets, key) = 0 THEN EmptyDict
    ELSE IF ~Truthy(release.zip_manifest) THEN EmptyDict
    ELSE LET m1 == Put(Put(Put(Put(release.zip_manifest,
                                   "RepoUrl", repo_url),
                               "_repository_source", TRUE),
                           "_repository_asset_url", FindPluginAsset(release.assets, key)),
                       "_repository_token_name", token_name)
             m2 == IF release.published_at # "" THEN Put(m1, "LastUpdate", release.published_at)
                   ELSE m1
         IN  IF Truthy(release.testing)
             THEN Put(Put(m2, "TestingAssemblyVersion", release.testing.version),
                      "_testing_download_url", release.testing.download_url)
             ELSE m2

\* Config.plugin_outputs.get(key, "default"): the output of the source named key
PluginOutput(sources, key) ==
    IF \E i \in 1..Len(sources) : sources[i].key = key
    THEN sources[CHOOSE i \in 1..Len(sources) : sources[i].key = key].output
    ELSE "default"

\* a mutation of GetRepositoryPlugins: a source that yields no manifest ends
\* the loop, and the sources after it are not processed
RECURSIVE GetRepositoryPluginsUntilFailure(_, _, _)
GetRepositoryPluginsUntilFailure(todo, sources, answers) ==
    IF todo = <<>> THEN <<>>
    ELSE LET src == Head(todo)
             m == GetManifestFromRepository(src.key, src.url, src.token, answers[src.key])
         IN  IF Truthy(m)
             THEN <<Put(m, "_output_name", PluginOutput(sources, src.key))>>
                  \o GetRepositoryPluginsUntilFailure(Tail(todo), sources, answers)
             ELSE <<>>

\* RepositoryPluginProcessor.get_repository_plugins
RECURSIVE GetRepositoryPlugins(_, _, _)
GetRepositoryPlugins(todo, sources, answers) ==
    IF todo = <<>> THEN <<>>
    ELSE LET src == Head(todo)
             m == GetManifestFromRepository(src.key, src.url, src.token, answers[src.key])
         IN  (IF Truthy(m)
              THEN <<Put(m, "_output_name", PluginOutput(sources, src.key))>>
              ELSE <<>>)
             \o GetRepositoryPlugins(Tail(todo), sources, answers)

\* _collect_manifests_with_priority, lines 826-838: the repository manifests,
\* each replaced by the local manifest of its InternalName when that one wins
RECURSIVE ResolveRepoManifests(_, _)
ResolveRepoManifests(repo_manifests, dirs) ==
    IF repo_manifests = <<>> THEN <<>>
    ELSE LET m == Head(repo_manifests)
             name == Get(m, "InternalName", <<>>)
             local == GetLocalManifest(dirs, name)
         IN  (IF name = <<>> THEN <<>>
              ELSE IF Truthy(local) THEN <<ChooseBetterManifest(m, local)>>
              ELSE <<m>>)
             \o ResolveRepoManifests(Tail(repo_manifests), dirs)

\* the InternalNames of the repository manifests: processed_plugins after
\* the first loop
ProcessedByRepo(repo_manifests) ==
    { repo_manifests[i]["InternalName"] :
        i \in { j \in 1..Len(repo_manifests) : Has(repo_manifests[j], "InternalName")
                                                  /\ repo_manifests[j]["InternalName"] # <<>> } }

\* _collect_manifests_with_priority, lines 843-848: the local manifests whose
\* InternalName is not yet in processed_plugins
RECURSIVE AddRemainingLocal(_, _)
AddRemainingLocal(local_manifests, processed) ==
    IF local_manifests = <<>> THEN <<>>
    ELSE LET m == Head(local_manifests)
             name == Get(m, "InternalName", <<>>)
         IN  IF name # <<>> /\ name \notin processed
             THEN <<m>> \o AddRemainingLocal(Tail(local_manifests), processed \cup {name})
             ELSE AddRemainingLocal(Tail(local_manifests), processed)

\* a mutation of TagOutput: the destination is looked up under the
\* InternalName only
TagOutputByInternalName(m, sources) ==
    IF Has(m, "_output_name") THEN m
    ELSE Put(m, "_output_name", PluginOutput(sources, Get(m, "InternalName", <<>>)))

\* _collect_manifests_with_priority, lines 851-857: the routing tag of a
\* manifest that has none: plugin_outputs.get(Name) or
\* plugin_outputs.get(InternalName, "default")
TagOutput(m, sources) ==
    IF Has(m, "_output_name") THEN m
    ELSE Put(m, "_output_name",
             IF \E i \in 1..Len(sources) :
                    sources[i].key = Get(m, "Name", <<>>) /\ sources[i].output # ""
             THEN PluginOutput(sources, Get(m, "Name", <<>>))
             ELSE PluginOutput(sources, Get(m, "InternalName", <<>>)))

\* PluginMasterGenerator._collect_manifests_with_priority
CollectManifestsWithPriority(sources, answers, dirs) ==
    LET repo_manifests == GetRepositoryPlugins(sources, sources, answers)
        resolved == ResolveRepoManifests(repo_manifests, dirs)
                    \o AddRemainingLocal(CollectLocalManifests(dirs),
                                         ProcessedByRepo(repo_manifests))
    IN  [i \in 1..Len(resolved) |-> TagOutput(resolved[i], sources)]

-----------------------------------------------------------------------------
(* Download counts: _load_existing_download_counts, update_download_counts *)
(* and the reconciliation loop of generate                                 *)

\* _load_existing_download_counts, lines 809-813: the entries of one catalog
RECURSIVE LoadEntries(_, _)
LoadEntries(entries, counts) ==
    IF entries = <<>> THEN counts
    ELSE LoadEntries(Tail(entries),
                     IF Get(Head(entries), "InternalName", <<>>) # <<>>
                     THEN Put(counts, Head(entries)["InternalName"],
                              Get(Head(entries), "DownloadCount", 0))
                     ELSE counts)

\* PluginMasterGenerator._load_existing_download_counts: a file is a record
\* with exists and, when it exists, the entries of the catalog
RECURSIVE LoadExistingDownloadCounts(_, _, _)
LoadExistingDownloadCounts(outputs, files, counts) ==
    IF outputs = <<>> THEN counts
    ELSE LoadExistingDownloadCounts(
            Tail(outputs), files,
            IF files[Head(outputs).path].exists
            THEN LoadEntries(files[Head(outputs).path].entries, counts)
            ELSE counts)

\* whether update_download_counts looks a manifest's repository up
Countable(m) ==
    /\ Get(m, "RepoUrl", <<>>) # <<>>
    /\ MentionsGithub(m["RepoUrl"])
    /\ HasSlash(RepoPath(m["RepoUrl"]))

\* DownloadCountUpdater._fetch_download_count: the total the feed yields for
\* the repository, 0 when the request fails
FetchDownloadCount(totals, repo_key) == totals[repo_key]

\* a mutation of UpdateDownloadCounts: a cached count of 0 is not taken for
\* an answer, and the repository is fetched again
RECURSIVE UpdateDownloadCountsRefetchingZero(_, _, _)
UpdateDownloadCountsRefetchingZero(todo, cache, totals) ==
    IF todo = <<>> THEN [manifests |-> <<>>, cache |-> cache, calls |-> <<>>]
    ELSE LET m == Head(todo)
             repo_key == RepoPath(m["RepoUrl"])
             miss == Countable(m) /\ (~Has(cache, repo_key) \/ cache[repo_key] = 0)
             cache1 == IF miss
                       THEN Put(cache, repo_key, FetchDownloadCount(totals, repo_key))
                       ELSE cache
             m1 == IF Countable(m) THEN Put(m, "DownloadCount", cache1[repo_key]) ELSE m
             rest == UpdateDownloadCountsRefetchingZero(Tail(todo), cache1, totals)
         IN  [manifests |-> <<m1>> \o rest.manifests, cache |-> rest.cache,
              calls |-> (IF miss THEN <<repo_key>> ELSE <<>>) \o rest.calls]

\* DownloadCountUpdater.update_download_counts: the manifests and the
\* repo_cache after the loop, and the repositories _fetch_download_count was
\* called for, in the order of the calls
RECURSIVE UpdateDownloadCounts(_, _, _)
UpdateDownloadCounts(todo, cache, totals) ==
    IF todo = <<>> THEN [manifests |-> <<>>, cache |-> cache, calls |-> <<>>]
    ELSE LET m == Head(todo)
             repo_key == RepoPath(m["RepoUrl"])
             miss == Countable(m) /\ ~Has(cache, repo_key)
             cache1 == IF miss
                       THEN Put(cache, repo_key, FetchDownloadCount(totals, repo_key))
                       ELSE cache
             m1 == IF Countable(m) THEN Put(m, "DownloadCount", cache1[repo_key]) ELSE m
             rest == UpdateDownloadCounts(Tail(todo), cache1, totals)
         IN  [manifests |-> <<m1>> \o rest.manifests, cache |-> rest.cache,
              calls |-> (IF miss THEN <<repo_key>> ELSE <<>>) \o rest.calls]

\* a mutation of UseCachedCount: the cached count replaces a live one too
UseCachedCountAlways(m, counts) ==
    IF Has(counts, Get(m, "InternalName", <<>>))
    THEN Put(m, "DownloadCount", counts[m["InternalName"]])
    ELSE m

\* generate, lines 737-741: the cached count of a manifest whose count is 0
UseCachedCount(m, counts) ==
    IF Get(m, "DownloadCount", 0) = 0 /\ Has(counts, Get(m, "InternalName", <<>>))
    THEN Put(m, "DownloadCount", counts[m["InternalName"]])
    ELSE m

-----------------------------------------------------------------------------
(* Timestamps, trimming and writing *)

\* PluginMasterGenerator._set_local_timestamp: the modification time of the
\* archive ("" in the directory record when the archive does not exist), the
\* current time otherwise
SetLocalTimestamp(m, dirs) ==
    LET found == DirsNamed(dirs, m["InternalName"])
        mtime == IF found = <<>> THEN ""
                 ELSE IF IsGlobal(m) THEN found[1].global_mtime
                 ELSE found[1].main_mtime
    IN  Put(m, "LastUpdate", IF mtime # "" THEN mtime ELSE "now")

\* _update_last_modified, lines 953-966: one manifest
UpdateLastModifiedOf(m, dirs) ==
    IF Get(m, "_repository_source", FALSE)
    THEN IF Has(m, "LastUpdate") THEN Del(m, "_repository_source")
         ELSE SetLocalTimestamp(Del(m, "_repository_source"), dirs)
    ELSE SetLocalTimestamp(m, dirs)

\* a mutation of TrimManifest: the manifest is written as it is
TrimManifestKeepAll(m) == m

\* PluginProcessor.trim_manifest
TrimManifest(m) == [k \in (DOMAIN m) \cap RequiredManifestKeys |-> m[k]]

\* generate, lines 746-748: output_routing.get(name, "default") after the
\* loop: the tag of the last manifest with that InternalName
OutputRouting(ms, name) ==
    LET last == CHOOSE i \in 1..Len(ms) :
                    /\ Get(ms[i], "InternalName", <<>>) = name
                    /\ \A j \in (i+1)..Len(ms) : Get(ms[j], "InternalName", <<>>) # name
    IN  Get(ms[last], "_output_name", "default")

\* generate, lines 746-754: trim every manifest and re-attach its routing
TrimAndRoute(ms) ==
    [i \in 1..Len(ms) |->
        Put(TrimManifest(ms[i]), "_output_name",
            OutputRouting(ms, Get(ms[i], "InternalName", <<>>)))]

\* the names of the configured outputs
OutputNames(outputs) == { outputs[i].name : i \in 1..Len(outputs) }

\* _write_plugin_master, lines 917-924: the group a manifest is put in
GroupOf(m, outputs) ==
    IF Get(m, "_output_name", "default") \in OutputNames(outputs)
    THEN Get(m, "_output_name", "default")
    ELSE "default"

\* a mutation of CleanForWrite: _output_name is written in the final pass too
CleanForWriteKeepTag(m, final) == m

\* _write_plugin_master, line 923: what is written of a manifest
CleanForWrite(m, final) == IF final THEN Del(m, "_output_name") ELSE m

\* _write_plugin_master, lines 917-924: the manifests grouped under a name
Grouped(ms, outputs, name, final) ==
    LET mine == SelectSeq(ms, LAMBDA m : GroupOf(m, outputs) = name)
    IN  [i \in 1..Len(mine) |-> CleanForWrite(mine[i], final)]

NoFile == [exists |-> FALSE, entries |-> <<>>]

\* a mutation of WriteOutputs: the file of an output without manifests is
\* left as it is
RECURSIVE WriteOutputsKeepEmpty(_, _, _, _, _)
WriteOutputsKeepEmpty(todo, outputs, ms, final, files) ==
    IF todo = <<>> THEN files
    ELSE LET out == Head(todo)
             output_manifests == Grouped(ms, outputs, out.name, final)
         IN  WriteOutputsKeepEmpty(
                 Tail(todo), outputs, ms, final,
                 IF output_manifests = <<>>
                 THEN files
                 ELSE [files EXCEPT ![out.path] = [exists |-> TRUE,
                                                   entries |-> output_manifests]])

\* _write_plugin_master, lines 926-937: the files after the loop over the
\* configured outputs
RECURSIVE WriteOutputs(_, _, _, _, _)
WriteOutputs(todo, outputs, ms, final, files) ==
    IF todo = <<>> THEN files
    ELSE LET out == Head(todo)
             output_manifests == Grouped(ms, outputs, out.name, final)
         IN  WriteOutputs(
                 Tail(todo), outputs, ms, final,
                 IF output_manifests = <<>> /\ out.name # "default"
                 THEN [files EXCEPT ![out.path] = NoFile]
                 ELSE [files EXCEPT ![out.path] = [exists |-> TRUE,
                                                   entries |-> output_manifests]])

\* _write_plugin_master, lines 926-936: current_output_paths
CurrentOutputPaths(outputs, ms, final) ==
    { outputs[i].path :
        i \in { j \in 1..Len(outputs) :
                  ~(Grouped(ms, outputs, outputs[j].name, final) = <<>>
                    /\ outputs[j].name # "default") } }

SourcesFile == "plugin-sources.json"

\* a mutation of CleanupStaleOutputs: nothing is removed
CleanupStaleOutputsNone(files, current_output_paths) == files

\* PluginMasterGenerator._cleanup_stale_outputs: the *.json files of the
\* working directory that are neither written in this pass nor protected
CleanupStaleOutputs(files, current_output_paths) ==
    [f \in DOMAIN files |->
        IF f \notin current_output_paths /\ f # SourcesFile THEN NoFile ELSE files[f]]

\* a mutation of WritePluginMaster: the cleanup runs after every pass
WritePluginMasterAlwaysCleaning(ms, outputs, final, files) ==
    CleanupStaleOutputs(WriteOutputs(outputs, outputs, ms, final, files),
                        CurrentOutputPaths(outputs, ms, final))

\* PluginMasterGenerator._write_plugin_master
WritePluginMaster(ms, outputs, final, files) ==
    IF final
    THEN CleanupStaleOutputs(WriteOutputs(outputs, outputs, ms, final, files),
                             CurrentOutputPaths(outputs, ms, final))
    ELSE WriteOutputs(outputs, outputs, ms, final, files)

-----------------------------------------------------------------------------
(* The run specification: one run of generate over a configuration, a      *)
(* working directory, local plugin directories and a release feed that are *)
(* chosen initially and do not change during the run.                      *)

\* the *.json files of the working directory: the source configuration, the
\* catalogs of the outputs default, A and B, and the catalog of an output C
\* that is configured in no configuration
JsonFiles == { SourcesFile, "pluginmaster.json", "a.json", "b.json", "c.json" }

\* Config._load_plugin_sources, lines 44-48: the configured outputs
OutputConfigs ==
    { << [name |-> "default", path |-> "pluginmaster.json"] >>,
      << [name |-> "default", path |-> "pluginmaster.json"],
         [name |-> "A", path |-> "a.json"], [name |-> "B", path |-> "b.json"] >>,
      << [name |-> "A", path |-> "a.json"], [name |-> "B", path |-> "b.json"] >> }

\* plugin identifiers and display names
NameP == <<"P", " ", "N">>
NameQ == <<"Q", " ", "N">>
KeyAlt == <<"P", "2">>

OtherRepoUrl == <<GithubPrefix, "o", "/", "s">>

\* the manifest inside an archive of the plugin id
ArchiveManifest(id, name, version) ==
    ("InternalName" :> id) @@ ("Name" :> name) @@ ("AssemblyVersion" :> version)
    @@ ("LoadPriority" :> 1)

VersionLow == <<"1", ".", "0", ".", "0">>
VersionHigh == <<"1", ".", "0", ".", "1">>

\* Config._load_plugin_sources, lines 52-60: the source keyed by the display
\* name of P, routed to default or to A
SourceP(output) ==
    [key |-> NameP, url |-> GoodRepoUrl, token |-> "GITHUB_TOKEN", output |-> output]

\* a source under a key that is no plugin's Name or InternalName, routed to B
SourceAlt == [key |-> KeyAlt, url |-> OtherRepoUrl, token |-> "GITHUB_TOKEN", output |-> "B"]

SourceLists ==
    { p \o q : p \in { <<>>, <<SourceP("default")>>, <<SourceP("A")>> },
               q \in { <<>>, <<SourceAlt>> } }

NoRelease ==
    [status |-> 404, published_at |-> "", assets |-> <<>>, zip_manifest |-> EmptyDict,
     testing |-> EmptyDict]

\* a latest release with one archive named latest.zip
Release(m, published_at, testing) ==
    [status |-> 200, published_at |-> published_at,
     assets |-> << [name |-> LatestZip, url |-> 1] >>,
     zip_manifest |-> m, testing |-> testing]

TestingInfo == ("version" :> <<"2">>) @@ ("download_url" :> TestingUrl)

\* the answers of the feed for the source of P: not found, a release without
\* an archive, a release whose archive cannot be downloaded or read, a
\* release of 1.0.0 with a date and a testing pre-release, a release of 1.0.1
\* without a date, and one whose archived manifest has a LastUpdate of its own
ReleasesOfP ==
    { NoRelease,
      [NoRelease EXCEPT !.status = 200, !.assets = << [name |-> <<"x", ".", "t", "x", "t">>, url |-> 1] >>],
      Release(EmptyDict, "released", EmptyDict),
      Release(ArchiveManifest(<<"P">>, NameP, VersionLow), "released", TestingInfo),
      Release(ArchiveManifest(<<"P">>, NameP, VersionHigh), "", EmptyDict),
      Release(Put(ArchiveManifest(<<"P">>, NameP, VersionHigh), "LastUpdate", "packaged"),
              "", EmptyDict) }

\* the answers of the feed for the other source: not found, a release of P,
\* a release of Q
ReleasesOfAlt ==
    { NoRelease,
      Release(ArchiveManifest(<<"P">>, NameP, VersionHigh), "released", EmptyDict),
      Release(ArchiveManifest(<<"Q">>, NameQ, VersionLow), "released", EmptyDict) }

Feeds(sources) ==
    { f \in [ { sources[i].key : i \in 1..Len(sources) } -> ReleasesOfP \cup ReleasesOfAlt ] :
        \A k \in DOMAIN f : f[k] \in (IF k = NameP THEN ReleasesOfP ELSE ReleasesOfAlt) }

\* plugin directories of P: none, one whose main archive is missing or
\* unreadable, a main archive of 1.0.0, archives main, testing and global of
\* 1.0.1
DirsOfP ==
    { <<>>,
      << [name |-> <<"P">>, main |-> EmptyDict, testing |-> EmptyDict,
          global |-> ArchiveManifest(<<"P">>, NameP, VersionHigh),
          main_mtime |-> "", global_mtime |-> "global_mtime"] >>,
      << [name |-> <<"P">>,
          main |-> Put(ArchiveManifest(<<"P">>, NameP, VersionLow), "RepoUrl", GoodRepoUrl),
          testing |-> EmptyDict, global |-> EmptyDict,
          main_mtime |-> "main_mtime", global_mtime |-> ""] >>,
      << [name |-> <<"P">>,
          main |-> Put(ArchiveManifest(<<"P">>, NameP, VersionHigh), "RepoUrl", GoodRepoUrl),
          testing |-> ArchiveManifest(<<"P">>, NameP, <<"2">>),
          global |-> ArchiveManifest(<<"P">>, NameP, VersionHigh),
          main_mtime |-> "main_mtime", global_mtime |-> "global_mtime"] >> }

\* plugin directories of Q: none, a main archive of 1.0.1 whose manifest
\* names the repository of P
DirsOfQ ==
    { <<>>,
      << [name |-> <<"Q">>,
          main |-> Put(ArchiveManifest(<<"Q">>, NameQ, VersionHigh), "RepoUrl", GoodRepoUrl),
          testing |-> EmptyDict, global |-> EmptyDict,
          main_mtime |-> "main_mtime", global_mtime |-> ""] >> }

\* an entry of a catalog written by an earlier run
OldEntry(id, name, count) ==
    ("InternalName" :> id) @@ ("Name" :> name) @@ ("DownloadCount" :> count)

\* the first configured catalog as an earlier run left it
OldCatalogs ==
    { NoFile,
      [exists |-> TRUE, entries |-> << OldEntry(<<"P">>, NameP, 7), OldEntry(<<"Q">>, NameQ, 7) >>],
      [exists |-> TRUE, entries |-> << OldEntry(<<"P">>, NameP, 0) >>] }

\* the working directory before the run: the source configuration, the first
\* configured catalog, and possibly the catalogs of B and C of earlier runs
Disks(outputs) ==
    { [f \in JsonFiles |->
          IF f = SourcesFile THEN [exists |-> TRUE, entries |-> <<>>]
          ELSE IF f = outputs[1].path THEN old
          ELSE IF f \in {"b.json", "c.json"} /\ stale
               THEN [exists |-> TRUE, entries |-> << OldEntry(<<"Q">>, NameQ, 3) >>]
          ELSE NoFile] :
        old \in OldCatalogs, stale \in BOOLEAN }

Init ==
    /\ pc = "start"
    /\ output_files \in OutputConfigs
    /\ repository_list \in SourceLists
    /\ feed \in Feeds(repository_list)
    /\ plugins_dir \in { p \o q : p \in DirsOfP, q \in DirsOfQ }
    /\ fetched \in { (<<"o", "/", "r">> :> 0) @@ (<<"o", "/", "s">> :> 5),
                     (<<"o", "/", "r">> :> 5) @@ (<<"o", "/", "s">> :> 0) }
    /\ disk \in Disks(output_files)
    /\ existing_download_counts = EmptyDict
    /\ repo_cache = EmptyDict
    /\ manifests = <<>>
    /\ icon_exists = FALSE
    /\ asset_response \in { [status |-> 200, name |-> LatestZip],
                            [status |-> 404, name |-> <<>>] }
    /\ release_response = [status |-> 0, assets |-> <<>>]
    /\ manifest = EmptyDict /\ applied = 0
    /\ published = EmptyDict
    /\ NoVersionCall /\ NoAssetCall /\ NoFetchCall

\* the response to the lookup of a manifest's _repository_asset_url: the
\* assets of the other repository are found, those of the repository of P
\* get asset_response
AssetResponseOf(m, response) ==
    IF Get(m, "RepoUrl", <<>>) = OtherRepoUrl
    THEN [status |-> 200, name |-> LatestZip]
    ELSE response

frame == <<versionVars, assetVars, enrichVars, configVars, worldVars, fetchVars, historyVars>>

\* generate, line 722
LoadCounts ==
    /\ pc = "start"
    /\ existing_download_counts' =
          LoadExistingDownloadCounts(output_files, disk, existing_download_counts)
    /\ pc' = "collect"
    /\ UNCHANGED <<frame, disk, repo_cache, manifests>>

\* generate, line 729
Collect ==
    /\ pc = "collect"
    /\ manifests' = CollectManifestsWithPriority(repository_list, feed, plugins_dir)
    /\ pc' = "links"
    /\ UNCHANGED <<frame, disk, existing_download_counts, repo_cache>>

\* generate, lines 731-732
AddLinks ==
    /\ pc = "links"
    /\ manifests' = [i \in 1..Len(manifests) |->
                        AddDownloadLinks(manifests[i], icon_exists,
                                         AssetResponseOf(manifests[i], asset_response),
                                         release_response)]
    /\ pc' = "counts"
    /\ UNCHANGED <<frame, disk, existing_download_counts, repo_cache>>

\* generate, line 735
UpdateCounts ==
    /\ pc = "counts"
    /\ manifests' = UpdateDownloadCounts(manifests, repo_cache, fetched).manifests
    /\ repo_cache' = UpdateDownloadCounts(manifests, repo_cache, fetched).cache
    /\ pc' = "reconcile"
    /\ UNCHANGED <<frame, disk, existing_download_counts>>

\* a mutation of Reconcile: the count a manifest ends with is stored back
\* into the cache
ReconcileStoringCounts ==
    /\ pc = "reconcile"
    /\ manifests' = [i \in 1..Len(manifests) |->
                        UseCachedCount(manifests[i], existing_download_counts)]
    /\ existing_download_counts' =
          LoadEntries(manifests', existing_download_counts)
    /\ pc' = "timestamps"
    /\ UNCHANGED <<frame, disk, repo_cache>>

\* generate, lines 737-741
Reconcile ==
    /\ pc = "reconcile"
    /\ manifests' = [i \in 1..Len(manifests) |->
                        UseCachedCount(manifests[i], existing_download_counts)]
    /\ pc' = "timestamps"
    /\ UNCHANGED <<frame, disk, existing_download_counts, repo_cache>>

\* generate, line 743: _update_last_modified, which ends with the non-final
\* _write_plugin_master
UpdateLastModified ==
    /\ pc = "timestamps"
    /\ manifests' = [i \in 1..Len(manifests) |->
                        UpdateLastModifiedOf(manifests[i], plugins_dir)]
    /\ disk' = WritePluginMaster(manifests', output_files, FALSE, disk)
    /\ pc' = "trim"
    /\ UNCHANGED <<frame, existing_download_counts, repo_cache>>

\* generate, lines 745-754
Trim ==
    /\ pc = "trim"
    /\ manifests' = TrimAndRoute(manifests)
    /\ pc' = "write"
    /\ UNCHANGED <<frame, disk, existing_download_counts, repo_cache>>

\* generate, line 757: the final _write_plugin_master with its cleanup
FinalWrite ==
    /\ pc = "write"
    /\ disk' = WritePluginMaster(manifests, output_files, TRUE, disk)
    /\ pc' = "aliases"
    /\ UNCHANGED <<frame, existing_download_counts, repo_cache, manifests>>

\* generate, line 760: _generate_alias_files over Config.plugin_aliases,
\* which load_default leaves empty
GenerateAliasFiles ==
    /\ pc = "aliases"
    /\ pc' = "done"
    /\ UNCHANGED <<frame, runVars>>

Next ==
    \/ LoadCounts
    \/ Collect
    \/ AddLinks
    \/ UpdateCounts
    \/ Reconcile
    \/ UpdateLastModified
    \/ Trim
    \/ FinalWrite
    \/ GenerateAliasFiles

Spec == Init /\ [][Next]_vars

-----------------------------------------------------------------------------
(* C6 - C10: the run *)

\* the InternalName of the i-th manifest of the run
NameAt(i) == Get(manifests[i], "InternalName", <<>>)

\* the count update_download_counts gave a manifest: the count of its
\* repository, 0 when it has no repository to look up
LiveCount(m) == IF Countable(m) THEN repo_cache[RepoPath(m["RepoUrl"])] ELSE 0

AfterReconcile == pc \in {"timestamps", "trim", "write", "aliases", "done"}

\* C6: after the reconciliation, a manifest whose live count is 0 and whose
\* InternalName has a nonzero cached count has the cached count, and a
\* manifest whose live count is not 0 has its live count
C6_CachedCountReplacesOnlyZero ==
    AfterReconcile =>
        \A i \in 1..Len(manifests) :
            /\ (/\ LiveCount(manifests[i]) = 0
                /\ Has(existing_download_counts, NameAt(i))
                /\ existing_download_counts[NameAt(i)] # 0)
                  => manifests[i]["DownloadCount"] = existing_download_counts[NameAt(i)]
            /\ LiveCount(manifests[i]) # 0
                  => manifests[i]["DownloadCount"] = LiveCount(manifests[i])

\* C6 witness: one manifest with live count 0 took its cached 7, another
\* kept its live 5 though 7 is cached for it
C6_Witness ==
    /\ pc = "timestamps"
    /\ \E i, j \in 1..Len(manifests) :
          /\ LiveCount(manifests[i]) = 0
          /\ Has(existing_download_counts, NameAt(i))
          /\ existing_download_counts[NameAt(i)] = 7
          /\ manifests[i]["DownloadCount"] = 7
          /\ LiveCount(manifests[j]) = 5
          /\ Has(existing_download_counts, NameAt(j))
          /\ existing_download_counts[NameAt(j)] = 7
          /\ manifests[j]["DownloadCount"] = 5

AfterFinalWrite == pc \in {"aliases", "done"}

ConfiguredNames == { output_files[i].name : i \in 1..Len(output_files) }

\* the destination a manifest is written to: its tag when that is a
\* configured destination, default otherwise
DestinationOf(m) ==
    IF Get(m, "_output_name", "default") \in ConfiguredNames
    THEN Get(m, "_output_name", "default")
    ELSE "default"

\* the manifests of the final write that go to a destination, without the tag
ReceivedBy(name) ==
    LET mine == SelectSeq(manifests, LAMBDA m : DestinationOf(m) = name)
    IN  [i \in 1..Len(mine) |-> [k \in (DOMAIN mine[i]) \ {"_output_name"} |-> mine[i][k]]]

\* C7: after the final write and its cleanup, every *.json file of the
\* working directory is plugin-sources.json or the file of a configured
\* destination written in that pass, every configured destination that
\* received manifests holds exactly those, and plugin-sources.json exists
C7_OnlyConfiguredCatalogsRemain ==
    /\ disk # EmptyDict => disk[SourcesFile].exists
    /\ AfterFinalWrite =>
          /\ \A f \in JsonFiles \ {SourcesFile} :
                disk[f].exists =>
                    \E i \in 1..Len(output_files) :
                        /\ output_files[i].path = f
                        /\ (ReceivedBy(output_files[i].name) # <<>>
                            \/ output_files[i].name = "default")
          /\ \A i \in 1..Len(output_files) :
                ReceivedBy(output_files[i].name) # <<>> =>
                    disk[output_files[i].path] =
                        [exists |-> TRUE, entries |-> ReceivedBy(output_files[i].name)]
          /\ ~disk["c.json"].exists

\* C7 witness: with A and B configured, both received manifests and their
\* files hold them, and no file of default or C exists
C7_Witness ==
    /\ pc = "aliases"
    /\ ConfiguredNames = {"A", "B"}
    /\ Len(disk["a.json"].entries) >= 1
    /\ Len(disk["b.json"].entries) >= 1
    /\ ~disk["c.json"].exists
    /\ ~disk["pluginmaster.json"].exists

InternalFields ==
    { "_output_name", "_repository_source", "_repository_asset_url",
      "_repository_token_name", "_testing_download_url" }

\* the entries of the catalog files of the configured destinations
WrittenEntries ==
    UNION { { disk[output_files[i].path].entries[j] :
                j \in 1..Len(disk[output_files[i].path].entries) } :
            i \in 1..Len(output_files) }

\* C8, at the end of generate: every entry of a configured catalog has only
\* required keys and no internal field, and is a manifest of the final write
C8_EntriesAtEnd ==
    AfterFinalWrite =>
        \A e \in WrittenEntries :
            /\ DOMAIN e \subseteq RequiredManifestKeys
            /\ DOMAIN e \cap InternalFields = {}
            /\ \E i \in 1..Len(manifests) :
                  e = [k \in (DOMAIN manifests[i]) \ {"_output_name"} |-> manifests[i][k]]

\* C8, at the trim: every required key of a manifest is kept with its value,
\* and a required key the manifest does not have is not added
C8_TrimKeepsRequired ==
    pc = "trim" =>
        /\ Len(manifests') = Len(manifests)
        /\ \A i \in 1..Len(manifests) : \A k \in RequiredManifestKeys :
              IF k \in DOMAIN manifests[i]
              THEN k \in DOMAIN manifests'[i] /\ manifests'[i][k] = manifests[i][k]
              ELSE k \notin DOMAIN manifests'[i]

DiskEntries ==
    UNION { { disk[f].entries[j] : j \in 1..Len(disk[f].entries) } : f \in DOMAIN disk }

RoutingFields ==
    { "_output_name", "_repository_source", "_repository_asset_url",
      "_repository_token_name" }

\* C9, as claimed: in every state of a run no file on disk has an entry with
\* an internal-only field
C9_NeverInternalFieldsOnDisk ==
    \A e \in DiskEntries : DOMAIN e \cap RoutingFields = {}

\* C9, amended: in every state of a run except those between the non-final
\* write pass and the final write pass, no file on disk has an entry with an
\* internal-only field
C9_InternalFieldsOnlyBetweenWrites ==
    pc \notin {"trim", "write"} => \A e \in DiskEntries : DOMAIN e \cap RoutingFields = {}

\* C9 witness: after the final write a catalog holds the entry of a
\* repository manifest that kept its release date
C9_Witness ==
    /\ pc = "aliases"
    /\ \E e \in DiskEntries : Has(e, "LastUpdate") /\ e["LastUpdate"] = "released"

\* C10: no two manifests of the resolved list have the same InternalName
C10_UniqueInternalName ==
    pc \notin {"start", "collect"} =>
        \A i, j \in 1..Len(manifests) : i # j => NameAt(i) # NameAt(j)

-----------------------------------------------------------------------------
(* C11: a failure on one plugin leaves the records of the others alone *)

\* generate, lines 722-757, as one function of the configuration, the feed,
\* the plugin directories, the download totals, the counts of the earlier
\* catalogs and the working directory: the files after the final write
CatalogsOfRun(outputs, sources, answers, dirs, totals, response, counts, files) ==
    LET collected == CollectManifestsWithPriority(sources, answers, dirs)
        linked == [i \in 1..Len(collected) |->
                      AddDownloadLinks(collected[i], FALSE,
                                       AssetResponseOf(collected[i], response),
                                       [status |-> 0, assets |-> <<>>])]
        counted == UpdateDownloadCounts(linked, EmptyDict, totals).manifests
        reconciled == [i \in 1..Len(counted) |-> UseCachedCount(counted[i], counts)]
        stamped == [i \in 1..Len(reconciled) |-> UpdateLastModifiedOf(reconciled[i], dirs)]
        first == WritePluginMaster(stamped, outputs, FALSE, files)
    IN  WritePluginMaster(TrimAndRoute(stamped), outputs, TRUE, first)

\* the release, the asset lookup and the directory of P when nothing fails
HealthyRelease == Release(ArchiveManifest(<<"P">>, NameP, VersionLow), "released", TestingInfo)
HealthyResponse == [status |-> 200, name |-> LatestZip]
HealthyDir(d) ==
    IF d.name = <<"P">> /\ ~Truthy(d.main)
    THEN [d EXCEPT !.main = Put(ArchiveManifest(<<"P">>, NameP, VersionLow),
                                "RepoUrl", GoodRepoUrl),
                   !.main_mtime = "main_mtime"]
    ELSE d

\* the working directory at the end of the run that differs from this one
\* only in that the release of P, the lookup of its asset and its directory
\* are healthy
HealthyCatalogs ==
    CatalogsOfRun(output_files, repository_list,
                  [k \in DOMAIN feed |-> IF k = NameP THEN HealthyRelease ELSE feed[k]],
                  [i \in 1..Len(plugins_dir) |-> HealthyDir(plugins_dir[i])],
                  fetched, HealthyResponse, existing_download_counts,
                  [f \in JsonFiles |->
                      IF f = SourcesFile THEN [exists |-> TRUE, entries |-> <<>>] ELSE NoFile])

\* the catalog entries of the plugins other than P, with their files
OtherEntries(files) ==
    UNION { { <<f, files[f].entries[j]>> :
                j \in { i \in 1..Len(files[f].entries) :
                          Get(files[f].entries[i], "InternalName", <<>>) # <<"P">> } } :
            f \in JsonFiles }

\* C11: whatever fails on P, when generate has run to its end the catalogs
\* hold for every other plugin exactly the entries they hold at the end of
\* the run in which nothing fails on P
C11_FailureOnOnePluginIsIsolated ==
    pc = "done" => OtherEntries(disk) = OtherEntries(HealthyCatalogs)

\* C11 witness: the release of P was not found, the lookup of an asset and
\* the count fetch fail, and the run ended with the entry of Q, which the
\* other source provides, in the catalog of B
C11_Witness ==
    /\ pc = "done"
    /\ NameP \in DOMAIN feed /\ feed[NameP].status = 404
    /\ asset_response.status = 404
    /\ fetched[<<"o", "/", "r">>] = 0
    /\ \E j \in 1..Len(disk["b.json"].entries) :
          disk["b.json"].entries[j]["InternalName"] = <<"Q">>

-----------------------------------------------------------------------------
(* C12: destinations that receive no manifest *)

\* a write pass has just ended: the non-final one of _update_last_modified
\* or the final one
AfterWritePass == pc \in {"trim", "aliases"}

\* C12, as claimed: after a write pass no configured destination that
\* received no manifest has a file
C12_EmptyDestinationHasNoFile ==
    AfterWritePass =>
        \A i \in 1..Len(output_files) :
            ReceivedBy(output_files[i].name) = <<>> => ~disk[output_files[i].path].exists

\* C12, amended: after a write pass no configured destination other than
\* default that received no manifest has a file, and the file of a configured
\* default that received none holds the empty list
C12_EmptyDestinationButDefaultHasNoFile ==
    AfterWritePass =>
        \A i \in 1..Len(output_files) :
            ReceivedBy(output_files[i].name) = <<>> =>
                IF output_files[i].name = "default"
                THEN disk[output_files[i].path] = [exists |-> TRUE, entries |-> <<>>]
                ELSE ~disk[output_files[i].path].exists

\* C12 witness: B is configured, its catalog of the earlier run was read (the
\* count 3 of Q comes from it), B received no manifest in the write pass and
\* its file is gone
C12_Witness ==
    /\ pc = "trim"
    /\ ConfiguredNames = {"A", "B"}
    /\ Has(existing_download_counts, <<"Q">>) /\ existing_download_counts[<<"Q">>] = 3
    /\ ReceivedBy("B") = <<>>
    /\ ReceivedBy("A") # <<>>
    /\ ~disk["b.json"].exists

-----------------------------------------------------------------------------
(* C13: every manifest of the final write is persisted *)

\* the path of a destination: that of the configured output of that name,
\* "" when no output of that name is configured
PathOf(name) ==
    IF name \in ConfiguredNames
    THEN output_files[CHOOSE i \in 1..Len(output_files) : output_files[i].name = name].path
    ELSE ""

\* the *.json files that hold the manifest as an entry
FilesHolding(m) ==
    { f \in JsonFiles :
        \E j \in 1..Len(disk[f].entries) :
            disk[f].entries[j] = [k \in (DOMAIN m) \ {"_output_name"} |-> m[k]] }

\* C13: after the final write every manifest passed to it is an entry of
\* exactly one file, the catalog of its destination: of its tag when that is
\* configured, of default otherwise
C13_EveryManifestInItsCatalog ==
    AfterFinalWrite =>
        \A i \in 1..Len(manifests) :
            FilesHolding(manifests[i]) = { PathOf(DestinationOf(manifests[i])) }

-----------------------------------------------------------------------------
(* C14: the global variant of a purely local plugin *)

\* no release of a configured source holds a manifest of the plugin
Unclaimed(name) ==
    \A k \in DOMAIN feed : Get(feed[k].zip_manifest, "InternalName", <<>>) # name

\* C14: for every plugin directory that no source claims and that has
\* readable main and global archives, the resolved list holds the primary
\* manifest and a second manifest whose Name ends with "(API13)"
C14_GlobalVariantIsResolved ==
    pc = "links" =>
        \A d \in 1..Len(plugins_dir) :
            (/\ Truthy(plugins_dir[d].main)
             /\ Truthy(plugins_dir[d].global)
             /\ Unclaimed(plugins_dir[d].name))
            => \E i, j \in 1..Len(manifests) :
                  /\ i # j
                  /\ NameAt(i) = plugins_dir[d].main["InternalName"]
                  /\ ~IsGlobal(manifests[i])
                  /\ NameAt(j) = plugins_dir[d].global["InternalName"]
                  /\ IsGlobal(manifests[j])

-----------------------------------------------------------------------------
(* C15: destination tags of the resolved manifests *)

\* the destination configured in plugin-sources.json under a key, "" when
\* the key is no configured source
ConfiguredOutput(key) ==
    IF \E i \in 1..Len(repository_list) : repository_list[i].key = key
    THEN repository_list[CHOOSE i \in 1..Len(repository_list) :
                             repository_list[i].key = key].output
    ELSE ""

\* the destination of the source a repository-sourced manifest comes from:
\* the source with the manifest's RepoUrl
OutputOfSourceOf(m) ==
    repository_list[CHOOSE i \in 1..Len(repository_list) :
                        repository_list[i].url = m["RepoUrl"]].output

-----------------------------------------------------------------------------
(* C16: the cleanup belongs to the final write pass only *)

\* the *.json files that are the file of no configured output, but for
\* plugin-sources.json
StaleFiles == (JsonFiles \ {SourcesFile}) \ { output_files[i].path : i \in 1..Len(output_files) }

\* C16, the non-final pass: the step of _update_last_modified leaves every
\* file without a configured destination as it is, and every catalog it
\* writes holds the manifests of its destination with all their fields
C16_NonFinalPassKeepsAll ==
    pc = "timestamps" =>
        /\ \A f \in StaleFiles : disk'[f] = disk[f]
        /\ \A i \in 1..Len(output_files) :
              disk'[output_files[i].path].exists =>
                  disk'[output_files[i].path].entries =
                      SelectSeq(manifests',
                                LAMBDA m : DestinationOf(m) = output_files[i].name)

\* C16, the cleanup: a step that removes a file without a configured
\* destination is the final write, which is entered from the trim only
C16_CleanupInFinalPassOnly ==
    /\ (\E f \in StaleFiles : disk[f].exists /\ ~disk'[f].exists) => pc = "write"
    /\ (pc # "write" /\ pc' = "write") => pc = "trim"
    /\ pc = "write" => pc' = "aliases"

\* C16: the non-final write pass removes no file without a configured
\* destination and strips no field; such files are removed once, by the final
\* write pass, after which none is left
C16_CleanupOnceAfterFinalWrite ==
    /\ [][C16_NonFinalPassKeepsAll /\ C16_CleanupInFinalPassOnly]_vars
    /\ [](AfterFinalWrite => \A f \in StaleFiles : ~disk[f].exists)

\* C16 witness: after the non-final pass the catalog of the unconfigured C
\* is still there and a written catalog holds an entry with its routing tag
\* and asset locator
C16_Witness ==
    /\ pc = "trim"
    /\ disk["c.json"].exists
    /\ \E e \in WrittenEntries : Has(e, "_output_name") /\ Has(e, "_repository_asset_url")

-----------------------------------------------------------------------------
(* C17: LastUpdate after _update_last_modified *)

\* the answer of the feed for the source a repository-sourced manifest comes
\* from: the source with the manifest's RepoUrl
ReleaseOfSourceOf(m) ==
    feed[repository_list[CHOOSE i \in 1..Len(repository_list) :
                             repository_list[i].url = m["RepoUrl"]].key]

\* the modification time of the archive of a manifest, the current time when
\* there is no such archive: global/latest.zip for a global variant,
\* latest.zip otherwise
ArchiveTime(m) ==
    LET found == SelectSeq(plugins_dir, LAMBDA d : d.name = m["InternalName"])
    IN  IF found = <<>> THEN "now"
        ELSE IF IsGlobal(m)
        THEN (IF found[1].global_mtime = "" THEN "now" ELSE found[1].global_mtime)
        ELSE (IF found[1].main_mtime = "" THEN "now" ELSE found[1].main_mtime)

\* C17, for the step of _update_last_modified
C17_TimestampStep ==
    pc = "timestamps" =>
        \A i \in 1..Len(manifests) :
            manifests'[i]["LastUpdate"] =
                IF /\ Has(manifests[i], "_repository_source")
                   /\ ReleaseOfSourceOf(manifests[i]).published_at # ""
                THEN ReleaseOfSourceOf(manifests[i]).published_at
                ELSE ArchiveTime(manifests[i])

\* C17: _update_last_modified leaves a repository-sourced manifest the
\* LastUpdate captured from its release, and gives every other manifest the
\* modification time of its archive, or the current time without an archive
C17_ReleaseDateElseArchiveTime == [][C17_TimestampStep]_vars

-----------------------------------------------------------------------------
(* C18: one count fetch per repository *)

\* the calls of _fetch_download_count that update_download_counts makes for
\* the manifests of the run
FetchCalls == UpdateDownloadCounts(manifests, repo_cache, fetched).calls

\* C18, for the step of update_download_counts: no repository is fetched
\* twice, and the manifests of one repository get the same count
C18_CountStep ==
    pc = "counts" =>
        /\ \A a, b \in 1..Len(FetchCalls) : a # b => FetchCalls[a] # FetchCalls[b]
        /\ \A i, j \in 1..Len(manifests') :
              (/\ Countable(manifests'[i])
               /\ Countable(manifests'[j])
               /\ RepoPath(manifests'[i]["RepoUrl"]) = RepoPath(manifests'[j]["RepoUrl"]))
              => manifests'[i]["DownloadCount"] = manifests'[j]["DownloadCount"]

\* C18: within a run the download count of a repository is fetched at most
\* once, also when the fetch yields 0, and all manifests of the repository
\* get the same live count
C18_AtMostOneFetchPerRepository == [][C18_CountStep]_vars

\* C18 witness: P and Q are manifests of the repository o/r, whose fetch
\* yielded 0; the 0 is cached and both have it
C18_Witness ==
    /\ pc = "reconcile"
    /\ fetched[<<"o", "/", "r">>] = 0
    /\ Has(repo_cache, <<"o", "/", "r">>) /\ repo_cache[<<"o", "/", "r">>] = 0
    /\ \E i, j \in 1..Len(manifests) :
          /\ NameAt(i) = <<"P">> /\ NameAt(j) = <<"Q">>
          /\ manifests[i]["RepoUrl"] = GoodRepoUrl
          /\ manifests[j]["RepoUrl"] = GoodRepoUrl
          /\ manifests[i]["DownloadCount"] = 0
          /\ manifests[j]["DownloadCount"] = 0

-----------------------------------------------------------------------------
(* DownloadCountUpdater._fetch_download_count: the pagination loop *)

\* "per_page": 100, and the test len(releases) < 100
PageSize == 100

\* the answers of the feed to the request of one page: a status the code
\* names (404, 403, 401), another error status, a request that raises
\* (status 0), or 200 with a list of releases, given by its length and the
\* sum of the download counts of its assets
PageResponses ==
    { [status |-> s, releases |-> 0, downloads |-> 0] : s \in {404, 403, 401, 500, 0} }
    \cup { [status |-> 200, releases |-> 0, downloads |-> 0] }
    \cup { [status |-> 200, releases |-> n, downloads |-> d] :
             n \in {1, PageSize - 1, PageSize}, d \in 0..MaxPageDownloads }

\* a number, not told apart from the limit once it has reached it
UpTo(n, limit) == IF n < limit THEN n ELSE limit

\* page += 1, the pages from MaxPages on told apart by their parity only
NextPage(p) == IF p > MaxPages THEN MaxPages ELSE p + 1

InitFetch ==
    /\ pc = "request"
    /\ page = 1
    /\ total_downloads = 0
    /\ fetch_result = 0
    /\ NoVersionCall /\ NoAssetCall /\ NoEnrichCall /\ NoRun

\* one pass of the while loop, lines 663-692: the request of a page and what
\* its answer makes of the loop
FetchPage ==
    /\ pc = "request"
    /\ \E response \in PageResponses :
          IF response.status # 200
          THEN \* 404, 403, 401: return 0; otherwise raise_for_status or the
               \* request raises, and the handlers return 0
               /\ pc' = "returned"
               /\ fetch_result' = 0
               /\ UNCHANGED <<page, total_downloads>>
          ELSE IF response.releases = 0
          THEN \* "if not releases: break", then return total_downloads
               /\ pc' = "returned"
               /\ fetch_result' = total_downloads
               /\ UNCHANGED <<page, total_downloads>>
          ELSE /\ total_downloads' = UpTo(total_downloads + response.downloads, MaxTotal)
               /\ IF response.releases < PageSize
                  THEN /\ pc' = "returned"
                       /\ fetch_result' = total_downloads'
                       /\ UNCHANGED page
                  ELSE /\ pc' = "request"
                       /\ page' = NextPage(page)
                       /\ UNCHANGED fetch_result
    /\ UNCHANGED <<versionVars, assetVars, enrichVars, configVars, worldVars, runVars,
                   historyVars>>

NextFetch == FetchPage

\* every request gets its answer, so the loop takes its next pass
FetchSpec == InitFetch /\ [][NextFetch]_vars /\ WF_vars(NextFetch)

-----------------------------------------------------------------------------
(* C19: termination of _fetch_download_count *)

\* C19: whatever the feed answers, _fetch_download_count returns
C19_FetchTerminates == <>(pc = "returned")

-----------------------------------------------------------------------------
(* C20: the three rules of DownloadLinkInstall *)

\* the install link of a manifest, NoUrl when it has none
InstallLinkOf(m) == Get(m, "DownloadLinkInstall", NoUrl)

\* the lookup of the asset locator succeeded: status 200 and an asset name
LookupSucceeded(response) == response.status = 200 /\ response.name # <<>>

\* what one application of add_download_links makes of the install link
C20_InstallLinkStep ==
    applied' = applied + 1 =>
        IF Has(manifest, "_repository_asset_url")
        THEN IF LookupSucceeded(asset_response)
             THEN InstallLinkOf(manifest') =
                      <<GithubPrefix>> \o RepoPath(Get(manifest, "RepoUrl", <<>>))
                      \o <<"/releases/latest/download/">> \o asset_response.name
             ELSE InstallLinkOf(manifest') = InstallLinkOf(manifest)
        ELSE IF Get(manifest, "_repository_source", FALSE)
        THEN IF GetRepoDownloadUrl(manifest, release_response) # NoUrl
             THEN InstallLinkOf(manifest') = GetRepoDownloadUrl(manifest, release_response)
             ELSE InstallLinkOf(manifest') = InstallLinkOf(manifest)
        ELSE InstallLinkOf(manifest') =
                 DownloadUrl(IF EndsWith(manifest["Name"], GlobalSuffix)
                             THEN "global" ELSE "main",
                             Branch, manifest["InternalName"])

\* C20: add_download_links decides DownloadLinkInstall by the first rule that
\* applies: (a) with an asset locator, the stable URL of the asset the lookup
\* names, and no link written when the lookup does not succeed; (b) marked
\* repository-sourced, the latest-release download URL, and no link written
\* when there is none; (c) otherwise the local template, the global one if
\* and only if Name ends with "(API{global_api_level})"
C20_InstallLinkByThreeRules == [][C20_InstallLinkStep]_vars

-----------------------------------------------------------------------------
(* C21: the download-counter cache is populated once, up front *)

\* what one step of the run does to existing_download_counts: only the first
\* step, _load_existing_download_counts, writes it, while no manifest is
\* collected and leaving every file as it is, and no later step returns to
\* the start
C21_CacheStep ==
    /\ pc' # "start"
    /\ pc = "start" =>
          /\ manifests = <<>> /\ manifests' = <<>>
          /\ disk' = disk
    /\ pc # "start" => existing_download_counts' = existing_download_counts

\* C21: the download-counter cache is written only by
\* _load_existing_download_counts, the first step of generate, before any
\* manifest is collected and any catalog file is written or deleted; from
\* then to the end of the run, alias generation included, it does not change
C21_CacheWrittenOnlyUpFront == [][C21_CacheStep]_vars

\* the run has ended with a cache that was loaded from an existing catalog
C21_Witness ==
    /\ pc = "done"
    /\ existing_download_counts # EmptyDict
    /\ manifests # <<>>

-----------------------------------------------------------------------------
(* Consecutive runs: main is started again in the working directory the    *)
(* previous run left, under the same plugin-sources.json, plugin           *)
(* directories and release feed, while the download totals may change.     *)

\* what _fetch_download_count yields in a run: a total for one of the two
\* repositories, or 0 for both (every fetch fails or finds no download)
RunTotals ==
    { (<<"o", "/", "r">> :> 0) @@ (<<"o", "/", "s">> :> 5),
      (<<"o", "/", "r">> :> 5) @@ (<<"o", "/", "s">> :> 0),
      (<<"o", "/", "r">> :> 0) @@ (<<"o", "/", "s">> :> 0) }

\* a working directory no run has written to yet
FreshDisk ==
    [f \in JsonFiles |->
        IF f = SourcesFile THEN [exists |-> TRUE, entries |-> <<>>] ELSE NoFile]

InitRuns ==
    /\ pc = "start"
    /\ output_files \in OutputConfigs
    /\ repository_list \in SourceLists
    /\ feed \in Feeds(repository_list)
    /\ plugins_dir \in { p \o q : p \in DirsOfP, q \in DirsOfQ }
    /\ fetched \in RunTotals
    /\ disk = FreshDisk
    /\ existing_download_counts = EmptyDict
    /\ repo_cache = EmptyDict
    /\ manifests = <<>>
    /\ icon_exists = FALSE
    /\ asset_response = [status |-> 200, name |-> LatestZip]
    /\ release_response = [status |-> 0, assets |-> <<>>]
    /\ manifest = EmptyDict /\ applied = 0
    /\ published = EmptyDict
    /\ NoVersionCall /\ NoAssetCall /\ NoFetchCall

\* main, lines 986-990, once more: a new generator with an empty
\* existing_download_counts, a new DownloadCountUpdater with an empty
\* repo_cache, and the files as the previous run left them
StartNextRun ==
    /\ pc = "done"
    /\ pc' = "start"
    /\ published' = disk
    /\ existing_download_counts' = EmptyDict
    /\ repo_cache' = EmptyDict
    /\ manifests' = <<>>
    /\ fetched' \in RunTotals
    /\ UNCHANGED <<versionVars, assetVars, enrichVars, configVars, fetchVars,
                   feed, plugins_dir, disk>>

NextRuns ==
    \/ Next
    \/ StartNextRun

RunsSpec == InitRuns /\ [][NextRuns]_vars

-----------------------------------------------------------------------------
(* C22: a published nonzero DownloadCount is never reset *)

\* the positions, in a catalog file, of the entries of the plugin that the
\* entry was is of: the same InternalName from the same repository
EntriesOf(files, f, was) ==
    { i \in 1..Len(files[f].entries) :
        /\ Get(files[f].entries[i], "InternalName", <<>>) = Get(was, "InternalName", <<>>)
        /\ Get(files[f].entries[i], "RepoUrl", <<>>) = Get(was, "RepoUrl", <<>>) }

\* C22: when a run ends, every plugin that the previous run published with a
\* nonzero DownloadCount in a configured catalog, and that is still in that
\* catalog, has a nonzero DownloadCount there, whatever the fetches of this
\* run yielded
C22_NonzeroCountNeverReset ==
    (pc = "done" /\ published # EmptyDict) =>
        \A k \in 1..Len(output_files) :
            LET f == output_files[k].path
            IN  \A i \in 1..Len(published[f].entries) :
                    LET was == published[f].entries[i]
                    IN  Get(was, "DownloadCount", 0) # 0 =>
                            \A j \in EntriesOf(disk, f, was) :
                                Get(disk[f].entries[j], "DownloadCount", 0) # 0

-----------------------------------------------------------------------------
(* C23: the winner of priority resolution keeps the destination *)

\* the manifests get_repository_plugins returns in the run, each tagged with
\* the output of its source
RepoManifestsOfRun == GetRepositoryPlugins(repository_list, repository_list, feed)

\* the local manifest wins over the i-th repository manifest
LocalWins(i) ==
    LET repo == RepoManifestsOfRun[i]
        local == GetLocalManifest(plugins_dir, Get(repo, "InternalName", <<>>))
    IN  /\ Truthy(local)
        /\ ChooseBetterManifest(repo, local) = local

\* C23: right after _collect_manifests_with_priority, a local manifest that
\* won over the repository manifest of a configured source goes to the
\* destination catalog the source configuration assigns to that plugin
C23_LocalWinnerKeepsDestination ==
    pc = "links" =>
        \A i \in 1..Len(RepoManifestsOfRun) :
            LocalWins(i) =>
                GroupOf(manifests[i], output_files)
                    = GroupOf(RepoManifestsOfRun[i], output_files)

====
